---------------------------- MODULE Spec2Model ----------------------------
(***************************************************************************)
(* The arithmetic quiz game of FrotendProjectGame: the question buffer of  *)
(* GameScreen.tsx (populateQueue / advanceQuestion / resetGameState) and   *)
(* the game-session handlers that drive it (startGame, handleSubmitAnswer, *)
(* handleDifficultyChange, finishGame, the timer effect), the history of   *)
(* recent attempts, and the data structures the screen and the services    *)
(* keep: LayoutManager (lib/LayoutManager.ts), PanelStateManager and       *)
(* SessionQueue (services/AuthService.ts).  Each data structure has a      *)
(* specification of its own that calls its methods in any order.  So have  *)
(* the leaderboard built from the fetched games, the high score that       *)
(* finishGame sends to the AuthService, the AuthService singleton and the  *)
(* Login and Register forms.                                               *)
(*                                                                         *)
(* React state is one variable per useState / useRef cell.  A handler that *)
(* runs synchronously is one action.  An async handler is one action per   *)
(* stretch between two awaits; the values its closure captured at the call *)
(* travel with the in-flight record, because the continuation after an     *)
(* await still reads the values of the render that created the callback.   *)
(***************************************************************************)
EXTENDS Integers, Sequences, FiniteSets, TLC

VARIABLES
    difficulty,        \* useState<Difficulty>("basic")
    currentQuestion,   \* useState<Question | null>(null)
    userAnswer,        \* useState("") : the text of the answer field
    score,             \* useState(0)
    correctAnswers,    \* useState(0)
    totalQuestions,    \* useState(0)
    timeRemaining,     \* useState(DIFFICULTY_TIME.basic)
    gameActive,        \* useState(false)
    isStarting,        \* useState(false)
    saving,            \* useState(false)
    sessionId,         \* useState<number | null>(null), 0 stands for null
    questionQueue,     \* questionQueue.current : the items of the Queue object
    queueRef,          \* identity of the Queue object questionQueue.current holds
    startRequests,     \* startGame calls waiting for POST /games/start
    finishCalls,       \* finishGame calls waiting for their awaits
    timeouts,          \* setTimeout(() => startGame(), 1200) not yet fired
    nextSessionId,     \* the id the server gives the next session
    genCount,          \* how many questions generateQuestion has produced
    queueBase,         \* genCount when the current Queue object was constructed
    served,            \* the questions handed out by the current Queue object
    calls,             \* the last two buffer operations the harness called
    history,           \* useState<HistoryEntry[]>([])
    panelStates,       \* useState(panelManager.current.getAllStates())
    panelManager,      \* panelManager.current : the Map of the PanelStateManager
                       \* and its last call
    layoutManager,     \* LayoutManager instances: the panel objects (heap), the
                       \* panels array of each instance and the last call
    sessionHistory,    \* a SessionQueue: items, maxSize, the number of items
                       \* enqueued so far and the last call
    games,             \* useState<GameResult[]>([])
    authService,       \* the AuthService instance: currentUser, the item
                       \* 'currentUser' of localStorage and the last call
    authForm           \* the cells of a Login or Register form and its last call

vars == << difficulty, currentQuestion, userAnswer, score, correctAnswers,
           totalQuestions, timeRemaining, gameActive, isStarting, saving,
           sessionId, questionQueue, queueRef, startRequests, finishCalls,
           timeouts, nextSessionId, genCount, queueBase, served, calls,
           history, panelStates, panelManager, layoutManager,
           sessionHistory, games, authService, authForm >>

layoutVars == << layoutManager >>
panelVars == << panelManager, panelStates >>
sessionVars == << sessionHistory >>
boardVars == << games >>
authVars == << authService >>
formVars == << authForm >>
libraryVars == << layoutVars, panelVars, sessionVars, boardVars, authVars,
                 formVars >>

(***************************************************************************)
(* Bounds of the model.                                                    *)
(***************************************************************************)
\* generateQuestion is called at most MaxGen times in a behaviour.
MaxGen == 16
\* At most MaxQueues Queue objects are constructed in a behaviour.
MaxQueues == 2
\* A LayoutManager holds at most MaxPanels panels, with orders below it.
MaxPanels == 2
\* A SessionQueue receives at most MaxEvents items in a behaviour.
MaxEvents == 22
\* The maxSize values 0..MaxSmallSize are tried next to the program's own.
MaxSmallSize == 3
\* GET /games answers with at most MaxGames results.
MaxGames == 11
\* A finished game has at most MaxCorrect correct answers.
MaxCorrect == 2
\* The components render and call the AuthService at most MaxCalls times.
MaxCalls == 5

(***************************************************************************)
(* Program constants.                                                      *)
(***************************************************************************)
Difficulty == {"basic", "advanced", "expert"}

DIFFICULTY_TIME_basic == 60
DIFFICULTY_TIME_advanced == 45
DIFFICULTY_TIME_expert == 30

DIFFICULTY_TIME(d) ==
    CASE d = "basic" -> DIFFICULTY_TIME_basic
      [] d = "advanced" -> DIFFICULTY_TIME_advanced
      [] d = "expert" -> DIFFICULTY_TIME_expert

SCORE_PER_CORRECT == 10

\* The size populateQueue fills the queue to.
QueueTarget == 8

(***************************************************************************)
(* Questions.  generateQuestion draws its operands from Math.random; the   *)
(* model names each draw by its serial number: the n-th call returns the   *)
(* n-th question, whose prompt records the difficulty it was drawn for and *)
(* whose answer is a number the player can type.                           *)
(***************************************************************************)
generateQuestion(d, n) ==
    [prompt |-> [difficulty |-> d, serial |-> n], answer |-> n]

\* null / undefined of type Question | null and Question | undefined.
Nil == [prompt |-> [difficulty |-> "none", serial |-> 0], answer |-> 0]

\* A value of type Question, as opposed to null or undefined.
IsQuestion(q) ==
    /\ q # Nil
    /\ q.prompt.difficulty \in Difficulty
    /\ q.prompt.serial >= 1
    /\ q.answer = q.prompt.serial

(***************************************************************************)
(* Queue<T> (lib/Queue.ts): a FIFO over an array.                          *)
(***************************************************************************)
NewQueue == << >>

size(queue) == Len(queue)

isEmpty(queue) == Len(queue) = 0

enqueue(queue, item) == Append(queue, item)

\* dequeue() removes and returns the head, undefined on an empty queue.
dequeue(queue) ==
    IF Len(queue) = 0
    THEN [item |-> Nil, queue |-> queue]
    ELSE [item |-> Head(queue), queue |-> Tail(queue)]

\* Faulty variant: the old Queue object is kept instead of being replaced.
replaceQueueKeeps(queue) == queue

\* questionQueue.current = new Queue<Question>(): the old object is dropped.
replaceQueue(queue) == NewQueue

(***************************************************************************)
(* Faulty variants of populateQueue.                                       *)
(***************************************************************************)
\* New questions are put at the head of the queue (unshift for push).
RECURSIVE populateQueueUnshift(_, _, _)
populateQueueUnshift(queue, d, gen) ==
    IF size(queue) < QueueTarget
    THEN populateQueueUnshift(<< generateQuestion(d, gen + 1) >> \o queue, d, gen + 1)
    ELSE [queue |-> queue, gen |-> gen]

\* The loop stops one item early (size() < 7).
RECURSIVE populateQueueShort(_, _, _)
populateQueueShort(queue, d, gen) ==
    IF size(queue) < QueueTarget - 1
    THEN populateQueueShort(enqueue(queue, generateQuestion(d, gen + 1)), d, gen + 1)
    ELSE [queue |-> queue, gen |-> gen]

\* do { enqueue } while (size() < 8): one item is added even to a full queue.
populateQueueDoWhile(queue, d, gen) ==
    LET RECURSIVE loop(_, _)
        loop(q, g) ==
            IF size(q) < QueueTarget
            THEN loop(enqueue(q, generateQuestion(d, g + 1)), g + 1)
            ELSE [queue |-> q, gen |-> g]
    IN  loop(enqueue(queue, generateQuestion(d, gen + 1)), gen + 1)

\* The loop runs to a wrong limit (size() < 10).
RECURSIVE populateQueueOverfill(_, _, _)
populateQueueOverfill(queue, d, gen) ==
    IF size(queue) < QueueTarget + 2
    THEN populateQueueOverfill(enqueue(queue, generateQuestion(d, gen + 1)), d, gen + 1)
    ELSE [queue |-> queue, gen |-> gen]

\* The queue is rebuilt from scratch instead of being topped up.
populateQueueRebuilds(queue, d, gen) ==
    IF size(queue) < QueueTarget
    THEN [queue |-> [i \in 1..QueueTarget |-> generateQuestion(d, gen + i)],
          gen |-> gen + QueueTarget]
    ELSE [queue |-> queue, gen |-> gen]

(***************************************************************************)
(* populateQueue: while (queue.size() < 8) queue.enqueue(generateQuestion).*)
(* gen is the number of questions generated so far; the result carries the *)
(* queue and the new count.                                                *)
(***************************************************************************)
RECURSIVE populateQueue(_, _, _)
populateQueue(queue, d, gen) ==
    IF size(queue) < QueueTarget
    THEN populateQueue(enqueue(queue, generateQuestion(d, gen + 1)), d, gen + 1)
    ELSE [queue |-> queue, gen |-> gen]

(***************************************************************************)
(* Faulty variants of advanceQuestion.                                     *)
(***************************************************************************)
\* Neither the refill nor the ?? fallback: undefined reaches the caller.
advanceQuestionNoFallback(queue, d, gen) ==
    LET next == dequeue(queue)
    IN  [queue |-> next.queue, currentQuestion |-> next.item, gen |-> gen]

\* No refill on an empty queue: only the ?? fallback supplies a question.
advanceQuestionFallbackOnly(queue, d, gen) ==
    LET next == dequeue(queue)
    IN  IF next.item = Nil
        THEN [queue |-> next.queue,
              currentQuestion |-> generateQuestion(d, gen + 1),
              gen |-> gen + 1]
        ELSE [queue |-> next.queue, currentQuestion |-> next.item, gen |-> gen]

\* The head is read but left in the queue (peek for dequeue).
advanceQuestionPeeks(queue, d, gen) ==
    LET filled == IF isEmpty(queue)
                  THEN populateQueue(queue, d, gen)
                  ELSE [queue |-> queue, gen |-> gen]
    IN  [queue |-> filled.queue,
         currentQuestion |-> Head(filled.queue),
         gen |-> filled.gen]

(***************************************************************************)
(* advanceQuestion: refill when empty, dequeue, and fall back on a fresh   *)
(* question when dequeue returned undefined.                               *)
(***************************************************************************)
advanceQuestion(queue, d, gen) ==
    LET filled == IF isEmpty(queue)
                  THEN populateQueue(queue, d, gen)
                  ELSE [queue |-> queue, gen |-> gen]
        next == dequeue(filled.queue)
    IN  IF next.item = Nil
        THEN [queue |-> next.queue,
              currentQuestion |-> generateQuestion(d, filled.gen + 1),
              gen |-> filled.gen + 1]
        ELSE [queue |-> next.queue,
              currentQuestion |-> next.item,
              gen |-> filled.gen]

(***************************************************************************)
(* LayoutManager (lib/LayoutManager.ts): an array of panel configurations  *)
(* kept sorted by their order field.  The array holds references: the      *)
(* objects live in a heap and a panel list is a sequence of indices        *)
(* into it, so that two lists holding the same object see each other's     *)
(* updates.  Of PanelConfig the methods read id, order and visible; name,  *)
(* priority, minHeight and gridArea are carried along untouched and are    *)
(* left out.                                                               *)
(***************************************************************************)
\* The panels GameScreen constructs its LayoutManager with.
GameScreenPanels ==
    << [id |-> "game-panel", order |-> 0, visible |-> TRUE],
       [id |-> "stats-panel", order |-> 1, visible |-> TRUE],
       [id |-> "history-panel", order |-> 2, visible |-> TRUE],
       [id |-> "leaderboard-panel", order |-> 3, visible |-> TRUE] >>

Min(a, b) == IF a < b THEN a ELSE b

\* The layouts of the model: the first MaxPanels panels of GameScreen's.
InitialPanels == SubSeq(GameScreenPanels, 1, Min(MaxPanels, Len(GameScreenPanels)))
PanelIds == { InitialPanels[i].id : i \in 1..Len(InitialPanels) }
PanelOrders == 0..(MaxPanels - 1)
Managers == {"source", "loaded"}

\* Object literals and spreads create new objects at the end of the heap.
allocate(heap, configs) ==
    [heap |-> heap \o configs,
     refs |-> [i \in 1..Len(configs) |-> Len(heap) + i]]

\* The configurations a list of references denotes.
Configs(heap, panels) == [i \in 1..Len(panels) |-> heap[panels[i]]]

\* Array.prototype.sort is stable: an element goes behind every element
\* that compares <= to it and was ahead of it.
insertByOrder(heap, sorted, ref) ==
    LET k == Cardinality({ i \in 1..Len(sorted) :
                             heap[sorted[i]].order <= heap[ref].order })
    IN  SubSeq(sorted, 1, k) \o << ref >> \o SubSeq(sorted, k + 1, Len(sorted))

RECURSIVE sortPanels(_, _)
sortPanels(heap, panels) ==
    IF panels = << >>
    THEN << >>
    ELSE insertByOrder(heap,
                       sortPanels(heap, SubSeq(panels, 1, Len(panels) - 1)),
                       panels[Len(panels)])

\* constructor(initialPanels) and reset(defaultPanels): the caller's array
\* is spread into a new array and sorted.
LayoutManager(heap, initialPanels) ==
    LET a == allocate(heap, initialPanels)
    IN  [heap |-> a.heap, panels |-> sortPanels(a.heap, a.refs), ret |-> TRUE]

addPanel(heap, panels, panel) ==
    LET a == allocate(heap, << panel >>)
    IN  [heap |-> a.heap,
         panels |-> sortPanels(a.heap, panels \o a.refs),
         ret |-> TRUE]

\* Array.prototype.findIndex: the first match, 0 standing for -1.
findIndex(heap, panels, id) ==
    IF \E i \in 1..Len(panels) : heap[panels[i]].id = id
    THEN CHOOSE i \in 1..Len(panels) :
            /\ heap[panels[i]].id = id
            /\ \A j \in 1..(i - 1) : heap[panels[j]].id # id
    ELSE 0

removePanel(heap, panels, id) ==
    LET index == findIndex(heap, panels, id)
    IN  IF index # 0
        THEN [heap |-> heap,
              panels |-> SubSeq(panels, 1, index - 1)
                           \o SubSeq(panels, index + 1, Len(panels)),
              ret |-> TRUE]
        ELSE [heap |-> heap, panels |-> panels, ret |-> FALSE]

\* Array.prototype.find: the first panel with the id, 0 standing for
\* undefined.
getPanel(heap, panels, id) ==
    LET index == findIndex(heap, panels, id)
    IN  IF index # 0 THEN panels[index] ELSE 0

\* Object.assign(panel, updates)
assign(panel, updates) ==
    [id |-> IF "id" \in DOMAIN updates THEN updates.id ELSE panel.id,
     order |-> IF "order" \in DOMAIN updates THEN updates.order ELSE panel.order,
     visible |-> IF "visible" \in DOMAIN updates
                 THEN updates.visible ELSE panel.visible]

updatePanelUnsorted(heap, panels, id, updates) ==
    LET panel == getPanel(heap, panels, id)
    IN  IF panel # 0
        THEN [heap |-> [heap EXCEPT ![panel] = assign(heap[panel], updates)],
              panels |-> panels,
              ret |-> TRUE]
        ELSE [heap |-> heap, panels |-> panels, ret |-> FALSE]

updatePanel(heap, panels, id, updates) ==
    LET panel == getPanel(heap, panels, id)
    IN  IF panel # 0
        THEN LET assigned == [heap EXCEPT ![panel] = assign(heap[panel], updates)]
             IN  [heap |-> assigned,
                  panels |-> sortPanels(assigned, panels),
                  ret |-> TRUE]
        ELSE [heap |-> heap, panels |-> panels, ret |-> FALSE]

reorderPanel(heap, panels, id, newOrder) ==
    updatePanel(heap, panels, id, [order |-> newOrder])

setPanelVisibility(heap, panels, id, visible) ==
    updatePanel(heap, panels, id, [visible |-> visible])

getVisiblePanels(heap, panels) ==
    SelectSeq(panels, LAMBDA p : heap[p].visible)

\* [...this.panels]: a new array of the same objects.
getAllPanels(panels) == panels

moveUp(heap, panels, id) ==
    LET panel == getPanel(heap, panels, id)
    IN  IF panel # 0 /\ heap[panel].order > 0
        THEN reorderPanel(heap, panels, id, heap[panel].order - 1)
        ELSE [heap |-> heap, panels |-> panels, ret |-> FALSE]

moveDown(heap, panels, id) ==
    LET panel == getPanel(heap, panels, id)
    IN  IF panel # 0 /\ heap[panel].order < Len(panels) - 1
        THEN reorderPanel(heap, panels, id, heap[panel].order + 1)
        ELSE [heap |-> heap, panels |-> panels, ret |-> FALSE]

reset(heap, defaultPanels) ==
    LET a == allocate(heap, defaultPanels)
    IN  [heap |-> a.heap, panels |-> sortPanels(a.heap, a.refs), ret |-> TRUE]

countVisible(heap, panels) == Len(getVisiblePanels(heap, panels))

hasPanel(heap, panels, id) ==
    \E i \in 1..Len(panels) : heap[panels[i]].id = id

toJSON(panels) == getAllPanels(panels)

fromJSONShares(heap, json) ==
    [heap |-> heap, panels |-> sortPanels(heap, json), ret |-> TRUE]

\* json.map(p => ({ ...p })): every panel is copied into a new object.
fromJSON(heap, json) ==
    LET a == allocate(heap, Configs(heap, json))
    IN  [heap |-> a.heap, panels |-> sortPanels(a.heap, a.refs), ret |-> TRUE]

\* Objects no list refers to are dropped and the others numbered in the
\* order the lists mention them: which index an object has is not
\* observable by the program.
RECURSIVE firstOccurrences(_, _)
firstOccurrences(refs, seen) ==
    IF refs = << >>
    THEN << >>
    ELSE IF Head(refs) \in seen
         THEN firstOccurrences(Tail(refs), seen)
         ELSE << Head(refs) >>
                \o firstOccurrences(Tail(refs), seen \cup {Head(refs)})

collect(heap, lists) ==
    LET live == firstOccurrences(lists.source \o lists.loaded, {})
        position(ref) == CHOOSE i \in 1..Len(live) : live[i] = ref
        rename(list) == [i \in 1..Len(list) |-> position(list[i])]
    IN  [heap |-> [i \in 1..Len(live) |-> heap[live[i]]],
         panels |-> [source |-> rename(lists.source),
                     loaded |-> rename(lists.loaded)]]

(***************************************************************************)
(* PanelStateManager (services/AuthService.ts): a Map from panel id to     *)
(* whether the panel is expanded.  The Map is a function whose domain is   *)
(* the set of registered ids.                                              *)
(***************************************************************************)
\* The ids the model registers and asks for: the two GameScreen registers
\* and one it does not.
PanelKeys == {"history", "leaderboard", "stats"}

\* Map.prototype.set
mapSet(map, key, value) ==
    [k \in DOMAIN map \cup {key} |-> IF k = key THEN value ELSE map[k]]

\* new Map()
EmptyMap == [k \in {} |-> FALSE]

\* The records a caller may pass as initialPanels.
PanelRecords ==
    UNION { [keys -> BOOLEAN] : keys \in SUBSET PanelKeys }

\* constructor(initialPanels): every entry of the record is set.
PanelStateManager(initialPanels) ==
    [k \in DOMAIN initialPanels |-> initialPanels[k]]

setPanel(map, panelId, isExpanded) == mapSet(map, panelId, isExpanded)

\* this.panelStates.get(panelId) ?? false
getPanelState(map, panelId) ==
    IF panelId \in DOMAIN map THEN map[panelId] ELSE FALSE

togglePanelExpands(map, panelId) ==
    [map |-> setPanel(map, panelId, TRUE), ret |-> TRUE]

togglePanel(map, panelId) ==
    LET currentState == getPanelState(map, panelId)
        newState == ~currentState
    IN  [map |-> setPanel(map, panelId, newState), ret |-> newState]

hasPanelState(map, panelId) == panelId \in DOMAIN map

expandAllFlips(map) == [k \in DOMAIN map |-> ~map[k]]

expandAll(map) == [k \in DOMAIN map |-> TRUE]

collapseAll(map) == [k \in DOMAIN map |-> FALSE]

\* A new record with one property per entry.
getAllStates(map) == [k \in DOMAIN map |-> map[k]]

countExpanded(map) == Cardinality({ k \in DOMAIN map : map[k] })

panelCount(map) == Cardinality(DOMAIN map)

clear(map) == EmptyMap

(***************************************************************************)
(* SessionQueue (services/AuthService.ts): the session history, an array   *)
(* that drops its first item when an item arrives and maxSize is reached.  *)
(* A session event is named by its arrival number: the strings AuthService *)
(* enqueues carry the time of the event.                                   *)
(***************************************************************************)
\* constructor(maxSize: number = 10)
DefaultMaxSize == 10
\* this.sessionHistory = new SessionQueue<string>(20)
SessionHistorySize == 20

\* The maxSize values of the model: the small ones, the default and the
\* one AuthService passes.
SessionQueueSizes == (0..MaxSmallSize) \cup {DefaultMaxSize, SessionHistorySize}

SessionQueue(maxSize) == [items |-> << >>, maxSize |-> maxSize]

\* Array.prototype.shift: the first item, 0 standing for undefined.
sessionDequeue(items) ==
    IF items = << >>
    THEN [items |-> items, ret |-> 0]
    ELSE [items |-> Tail(items), ret |-> Head(items)]

sessionEnqueueLate(items, maxSize, item) ==
    IF Len(items) > maxSize
    THEN Append(sessionDequeue(items).items, item)
    ELSE Append(items, item)

sessionEnqueue(items, maxSize, item) ==
    IF Len(items) >= maxSize
    THEN Append(sessionDequeue(items).items, item)
    ELSE Append(items, item)

sessionPeek(items) == IF items = << >> THEN 0 ELSE items[1]

sessionIsEmpty(items) == Len(items) = 0

sessionSize(items) == Len(items)

\* [...this.items]
toArray(items) == items

(***************************************************************************)
(* LinkedList (services/AuthService.ts) and the leaderboard GameScreen     *)
(* builds from the fetched games.  A list is the sequence of its values    *)
(* from head to tail.  A game result is known by its createdAt alone; two  *)
(* stamps are enough to tell a newer game from an older one.               *)
(***************************************************************************)
Stamps == {1, 2}
GameResults == [createdAt : Stamps]

\* constructor: head = null
LinkedList == << >>

\* add: the new node becomes the head
add(list, value) == << value >> \o list

\* toArray: the values from the head on
listToArray(list) == list

\* Array.prototype.slice(start, end)
slice(array, start, end) == SubSeq(array, start + 1, Min(end, Len(array)))

\* for (let i = games.length - 1; i >= 0; i -= 1) list.add(games[i]);
\* i counts from 1 here.
RECURSIVE addFromLast(_, _, _)
addFromLast(list, results, i) ==
    IF i >= 1
    THEN addFromLast(add(list, results[i]), results, i - 1)
    ELSE list

\* list.toArray().slice(0, 10)
LeaderboardSize == 10

leaderboard(results) ==
    slice(listToArray(addFromLast(LinkedList, results, Len(results))),
          0, LeaderboardSize)

(***************************************************************************)
(* AuthService (services/AuthService.ts): the current user and the         *)
(* 'currentUser' item of localStorage.  Of a user the id and the highScore *)
(* are kept; NoUser stands for null and for a missing item.  The item is   *)
(* the JSON text of the user, which holds the same two fields.             *)
(***************************************************************************)
NoUser == [id |-> 0, highScore |-> 0]

\* The scores a game can end with.
Scores == { SCORE_PER_CORRECT * n : n \in 0..MaxCorrect }

Users == [id : {1}, highScore : Scores]

\* saveUserToStorage
saveUserToStorage(service) ==
    IF service.currentUser # NoUser
    THEN [service EXCEPT !.localStorage = service.currentUser]
    ELSE service

\* loadUserFromStorage
loadUserFromStorage(localStorage) == localStorage

\* The constructor, with the item localStorage holds at that moment.
AuthService(localStorage) ==
    [currentUser |-> loadUserFromStorage(localStorage),
     localStorage |-> localStorage]

getCurrentUser(service) == service.currentUser

isAuthenticated(service) == service.currentUser # NoUser

\* updateHighScore after its fetch has settled; ok is response.ok, FALSE
\* also when fetch threw.
updateHighScore(service, userId, newScore, ok) ==
    IF ok /\ service.currentUser # NoUser
    THEN [service |-> saveUserToStorage(
                          [service EXCEPT !.currentUser.highScore = newScore]),
          ret |-> TRUE]
    ELSE [service |-> service, ret |-> FALSE]

(***************************************************************************)
(* The cells of GameScreen as its first render creates them.               *)
(***************************************************************************)
InitCells ==
    /\ difficulty = "basic"
    /\ currentQuestion = Nil
    /\ userAnswer = << >>
    /\ score = 0
    /\ correctAnswers = 0
    /\ totalQuestions = 0
    /\ timeRemaining = DIFFICULTY_TIME("basic")
    /\ gameActive = FALSE
    /\ saving = FALSE
    /\ sessionId = 0
    /\ questionQueue = NewQueue
    /\ queueRef = 1
    /\ finishCalls = {}
    /\ timeouts = {}
    /\ nextSessionId = 1
    /\ genCount = 0
    /\ queueBase = 0
    /\ served = << >>
    /\ calls = << "none", "none" >>
    /\ history = << >>

\* The data structures are checked on their own, each in a specification
\* that constructs it.  No handler of the game reads or writes them, and
\* where they are not under check their variables hold this placeholder.
Unconstructed == "unconstructed"

LayoutIdle == layoutManager = Unconstructed
PanelIdle == panelManager = Unconstructed /\ panelStates = Unconstructed
SessionIdle == sessionHistory = Unconstructed
GamesIdle == games = Unconstructed
AuthIdle == authService = Unconstructed
FormIdle == authForm = Unconstructed
LibraryCells ==
    /\ LayoutIdle
    /\ PanelIdle
    /\ SessionIdle
    /\ GamesIdle
    /\ AuthIdle
    /\ FormIdle

\* The screen before any handler or effect has run.
ScreenIdle ==
    /\ InitCells
    /\ isStarting = FALSE
    /\ startRequests = {}

\* The buffer before any handler has run.
BufInit ==
    /\ ScreenIdle
    /\ LibraryCells

gameVars == << userAnswer, score, correctAnswers, totalQuestions,
               timeRemaining, gameActive, isStarting, saving, sessionId,
               startRequests, finishCalls, timeouts, nextSessionId,
               history >>

\* Every cell of the game screen, for the data structures checked on their own.
screenVars == << difficulty, currentQuestion, questionQueue, queueRef,
                 genCount, queueBase, served, calls, gameVars >>
notLayoutVars == << screenVars, panelVars, sessionVars, boardVars,
                    authVars, formVars >>
notPanelVars == << screenVars, layoutVars, sessionVars, boardVars,
                   authVars, formVars >>
notSessionVars == << screenVars, layoutVars, panelVars, boardVars,
                     authVars, formVars >>

(***************************************************************************)
(* The buffer on its own: populateQueue, advanceQuestion and the           *)
(* replacement of the Queue object, called in any order.                   *)
(***************************************************************************)
BufPopulateQueue ==
    LET r == populateQueue(questionQueue, difficulty, genCount)
    IN  /\ r.gen <= MaxGen
        /\ questionQueue' = r.queue
        /\ genCount' = r.gen
        /\ calls' = << calls[2], "populateQueue" >>
        /\ UNCHANGED << difficulty, currentQuestion, queueRef, queueBase, served >>
        /\ UNCHANGED << gameVars, libraryVars >>

BufAdvanceQuestion ==
    LET r == advanceQuestion(questionQueue, difficulty, genCount)
    IN  /\ r.gen <= MaxGen
        /\ questionQueue' = r.queue
        /\ currentQuestion' = r.currentQuestion
        /\ genCount' = r.gen
        /\ served' = Append(served, r.currentQuestion)
        /\ calls' = << calls[2], "advanceQuestion" >>
        /\ UNCHANGED << difficulty, queueRef, queueBase >>
        /\ UNCHANGED << gameVars, libraryVars >>

\* questionQueue.current = new Queue<Question>()
BufNewQueue ==
    /\ queueRef < MaxQueues
    /\ questionQueue' = replaceQueue(questionQueue)
    /\ queueRef' = queueRef + 1
    /\ queueBase' = genCount
    /\ served' = << >>
    /\ calls' = << calls[2], "newQueue" >>
    /\ UNCHANGED << difficulty, currentQuestion, genCount >>
    /\ UNCHANGED << gameVars, libraryVars >>

BufNext == BufPopulateQueue \/ BufAdvanceQuestion \/ BufNewQueue

BufferSpec == BufInit /\ [][BufNext]_vars


(***************************************************************************)
(* Properties of the buffer on its own (BufferSpec).                       *)
(***************************************************************************)
\* The questions generated after genCount = from, up to genCount = to.
Generated(from, to) ==
    [i \in 1..(to - from) |-> generateQuestion(difficulty, from + i)]

PopulateStep == calls' = << calls[2], "populateQueue" >>
AdvanceStep == calls' = << calls[2], "advanceQuestion" >>
NewQueueStep == calls' = << calls[2], "newQueue" >> /\ queueRef' # queueRef

\* C1: the questions handed out by a buffer, followed by the questions still
\* in it, are the questions populateQueue appended to it, in the order of
\* their generation: none is skipped, duplicated or reordered.
C1_FifoOrder ==
    served \o questionQueue = Generated(queueBase, genCount)

C1_Witness ==
    /\ Len(served) = QueueTarget + 1
    /\ size(questionQueue) = QueueTarget - 1
    /\ currentQuestion = served[Len(served)]

\* C2: a call of populateQueue on a buffer of fewer than 8 items leaves
\* exactly 8 items in it.
C2_FillToCapacity ==
    [][(PopulateStep /\ size(questionQueue) < QueueTarget)
          => size(questionQueue') = QueueTarget]_vars

\* A populateQueue that found 5 items: 11 appended, 3 handed out.
C2_Witness ==
    /\ calls = << "advanceQuestion", "populateQueue" >>
    /\ Len(served) = 3
    /\ genCount = queueBase + QueueTarget + 3
    /\ size(questionQueue) = QueueTarget

\* C3: after a call of advanceQuestion, currentQuestion is a question,
\* whatever the buffer held, an empty buffer included.
C3_DequeueNeverFails ==
    calls[2] = "advanceQuestion" => IsQuestion(currentQuestion)

\* advanceQuestion called on the empty buffer a replacement left behind.
C3_Witness ==
    /\ calls = << "newQueue", "advanceQuestion" >>
    /\ IsQuestion(currentQuestion)

\* C5: advanceQuestion on an empty buffer refills it to 8 and removes the
\* head: the question handed out is the first one of the refill, 7 remain,
\* and no question is generated besides the 8 of the refill.
C5_RefillOnEmpty ==
    [][(AdvanceStep /\ isEmpty(questionQueue))
          => /\ genCount' = genCount + QueueTarget
             /\ currentQuestion' = generateQuestion(difficulty, genCount + 1)
             /\ size(questionQueue') = QueueTarget - 1
             /\ << currentQuestion' >> \o questionQueue'
                    = Generated(genCount, genCount')]_vars

\* advanceQuestion drained the buffer and was called once more.
C5_Witness ==
    /\ calls[2] = "advanceQuestion"
    /\ Len(served) = QueueTarget + 1
    /\ genCount = queueBase + 2 * QueueTarget
    /\ size(questionQueue) = QueueTarget - 1

\* C6: a second populateQueue right after a first one leaves the buffer as
\* the first one left it.
C6_RefillIdempotent ==
    [][(calls[2] = "populateQueue" /\ PopulateStep)
          => questionQueue' = questionQueue]_vars

C6_Witness ==
    /\ calls = << "populateQueue", "populateQueue" >>
    /\ size(questionQueue) = QueueTarget

C9_RefillAppendsAtTail ==
    [][/\ PopulateStep
          => /\ Len(questionQueue') >= Len(questionQueue)
             /\ SubSeq(questionQueue', 1, Len(questionQueue)) = questionQueue
       /\ (PopulateStep /\ genCount = 0 /\ questionQueue = << >>)
          => questionQueue' = Generated(0, QueueTarget)
       /\ (AdvanceStep /\ questionQueue = Generated(0, QueueTarget))
          => /\ currentQuestion' = generateQuestion(difficulty, 1)
             /\ questionQueue' = Tail(Generated(0, QueueTarget))
       /\ (PopulateStep /\ questionQueue = Tail(Generated(0, QueueTarget)))
          => questionQueue' = Tail(Generated(0, QueueTarget + 1))]_vars

C9_Witness ==
    /\ calls = << "advanceQuestion", "populateQueue" >>
    /\ served = << generateQuestion(difficulty, 1) >>
    /\ questionQueue = Tail(Generated(0, QueueTarget + 1))

(***************************************************************************)
(* The answer field.  A text is a sequence of one-character strings.       *)
(***************************************************************************)
DigitChars == << "0", "1", "2", "3", "4", "5", "6", "7", "8", "9" >>

IsDigit(c) == \E i \in 1..10 : DigitChars[i] = c

DigitValue(c) == (CHOOSE i \in 1..10 : DigitChars[i] = c) - 1

\* String.prototype.trim, for texts padded with spaces.
RECURSIVE trim(_)
trim(text) ==
    IF text = << >> THEN text
    ELSE IF Head(text) = " " THEN trim(Tail(text))
    ELSE IF text[Len(text)] = " " THEN trim(SubSeq(text, 1, Len(text) - 1))
    ELSE text

RECURSIVE DecimalValue(_)
DecimalValue(text) ==
    IF text = << >> THEN 0
    ELSE 10 * DecimalValue(SubSeq(text, 1, Len(text) - 1))
         + DigitValue(text[Len(text)])

\* Number(text) for a non-empty trimmed text: a run of digits is its value,
\* any other text of the model's alphabet is NaN.
Number(text) ==
    IF \A i \in 1..Len(text) : IsDigit(text[i])
    THEN [isNaN |-> FALSE, value |-> DecimalValue(text)]
    ELSE [isNaN |-> TRUE, value |-> 0]

\* The decimal text of a natural number.
RECURSIVE Decimal(_)
Decimal(n) ==
    IF n < 10 THEN << DigitChars[n + 1] >>
    ELSE Append(Decimal(n \div 10), DigitChars[(n % 10) + 1])

\* What the player types while question q is shown: a text that is no
\* number, a wrong number, and the right number behind a blank.
AnswerInputs(q) ==
    { << "x" >>, << "0" >>, << " " >> \o Decimal(q.answer) }

(***************************************************************************)
(* The list of recent attempts.  Of HistoryEntry the model keeps the       *)
(* fields that say which question an attempt answered, its prompt and its  *)
(* answer; playerAnswer, isCorrect and timestamp are shown but never read  *)
(* back and are left out.                                                  *)
(***************************************************************************)
\* .slice(0, 5)
HistoryLimit == 5

HistoryEntry(question) ==
    [question |-> question.prompt, correctAnswer |-> question.answer]

recentAttemptsOldestFirst(historyEntry, previous) ==
    SubSeq(Append(previous, historyEntry), 1, Min(HistoryLimit, Len(previous) + 1))

\* setHistory((previous) => [historyEntry, ...previous].slice(0, 5))
recentAttempts(historyEntry, previous) ==
    SubSeq(<< historyEntry >> \o previous, 1, Min(HistoryLimit, Len(previous) + 1))

(***************************************************************************)
(* resetGameState, as the render with difficulty d defined it: the cells   *)
(* it sets, a new Queue object, populateQueue and advanceQuestion.         *)
(***************************************************************************)
resetGameState(queue, d, gen) ==
    LET filled == populateQueue(replaceQueue(queue), d, gen)
        adv == advanceQuestion(filled.queue, d, filled.gen)
    IN  [score |-> 0,
         correctAnswers |-> 0,
         totalQuestions |-> 0,
         userAnswer |-> << >>,
         timeRemaining |-> DIFFICULTY_TIME(d),
         history |-> << >>,
         queue |-> adv.queue,
         currentQuestion |-> adv.currentQuestion,
         gen |-> adv.gen]

(***************************************************************************)
(* startGame.  The closure of the render that defined the callback holds   *)
(* gameActive, isStarting and difficulty.                                  *)
(***************************************************************************)
Closure == [gameActive |-> gameActive, isStarting |-> isStarting,
            difficulty |-> difficulty, sessionId |-> sessionId]

\* The part of startGame before its await: the guard, then the request.
startGame(closure) ==
    IF closure.gameActive \/ closure.isStarting
    THEN UNCHANGED << isStarting, startRequests >>
    ELSE /\ isStarting' = TRUE
         /\ startRequests' = startRequests \cup {[difficulty |-> closure.difficulty]}

\* The state after the mount effects of the first render: the autostart
\* effect has called startGame once.
Init ==
    /\ InitCells
    /\ LibraryCells
    /\ isStarting = TRUE
    /\ startRequests = {[difficulty |-> "basic"]}

\* The button "Nueva partida", disabled while gameActive || isStarting.
ClickStartGame ==
    /\ ~(gameActive \/ isStarting)
    /\ startGame(Closure)
    /\ UNCHANGED << difficulty, currentQuestion, userAnswer, score,
                    correctAnswers, totalQuestions, timeRemaining, gameActive,
                    saving, sessionId, questionQueue, queueRef, finishCalls,
                    timeouts, nextSessionId, genCount, queueBase, served,
                    calls, history, libraryVars >>

\* POST /games/start failed or answered with an error status.
StartGameFailed ==
    \E req \in startRequests :
        /\ startRequests' = startRequests \ {req}
        /\ isStarting' = FALSE
        /\ UNCHANGED << difficulty, currentQuestion, userAnswer, score,
                        correctAnswers, totalQuestions, timeRemaining,
                        gameActive, saving, sessionId, questionQueue, queueRef,
                        finishCalls, timeouts, nextSessionId, genCount, queueBase, served,
                        calls, history, libraryVars >>

\* POST /games/start answered: the rest of startGame.
StartGameResolved ==
    \E req \in startRequests :
        LET r == resetGameState(questionQueue, req.difficulty, genCount)
        IN  /\ queueRef < MaxQueues
            /\ r.gen <= MaxGen
            /\ startRequests' = startRequests \ {req}
            /\ sessionId' = nextSessionId
            /\ nextSessionId' = nextSessionId + 1
            /\ score' = r.score
            /\ correctAnswers' = r.correctAnswers
            /\ totalQuestions' = r.totalQuestions
            /\ userAnswer' = r.userAnswer
            /\ timeRemaining' = r.timeRemaining
            /\ queueRef' = queueRef + 1
            /\ questionQueue' = r.queue
            /\ currentQuestion' = r.currentQuestion
            /\ genCount' = r.gen
            /\ queueBase' = genCount
            /\ served' = << r.currentQuestion >>
            /\ gameActive' = TRUE
            /\ saving' = FALSE
            /\ isStarting' = FALSE
            /\ history' = r.history
            /\ UNCHANGED << difficulty, finishCalls, timeouts, calls, libraryVars >>

(***************************************************************************)
(* handleAnswerChange, handleDifficultyChange, handleSubmitAnswer.         *)
(***************************************************************************)
handleAnswerChange ==
    \E value \in AnswerInputs(currentQuestion) :
        /\ userAnswer' = value
        /\ UNCHANGED << difficulty, currentQuestion, score, correctAnswers,
                        totalQuestions, timeRemaining, gameActive, isStarting,
                        saving, sessionId, questionQueue, queueRef,
                        startRequests, finishCalls, timeouts, nextSessionId,
                        genCount, queueBase, served,
                    calls, history, libraryVars >>

handleDifficultyChange ==
    /\ IF gameActive
       THEN UNCHANGED << difficulty, timeRemaining >>
       ELSE \E value \in Difficulty :
               /\ difficulty' = value
               /\ timeRemaining' = DIFFICULTY_TIME(value)
    /\ UNCHANGED << currentQuestion, userAnswer, score, correctAnswers,
                    totalQuestions, gameActive, isStarting, saving,
                    sessionId, questionQueue, queueRef, startRequests,
                    finishCalls, timeouts, nextSessionId, genCount,
                    queueBase, served, calls, history, libraryVars >>

\* A submission is accepted when it passes the three early returns.
Accepted ==
    /\ gameActive
    /\ currentQuestion # Nil
    /\ trim(userAnswer) # << >>
    /\ ~Number(trim(userAnswer)).isNaN

\* The cells handleSubmitAnswer sets for an accepted submission.
submitAnswer(question, answerText, total, correct, points, queue, d, gen) ==
    LET parsedAnswer == Number(trim(answerText)).value
        isCorrect == parsedAnswer = question.answer
        adv == advanceQuestion(queue, d, gen)
    IN  [totalQuestions |-> total + 1,
         correctAnswers |-> IF isCorrect THEN correct + 1 ELSE correct,
         score |-> IF isCorrect THEN points + SCORE_PER_CORRECT ELSE points,
         userAnswer |-> << >>,
         queue |-> adv.queue,
         currentQuestion |-> adv.currentQuestion,
         gen |-> adv.gen]

handleSubmitAnswer ==
    /\ UNCHANGED << difficulty, timeRemaining, gameActive, isStarting, saving,
                    sessionId, queueRef, queueBase, startRequests, finishCalls,
                    timeouts, nextSessionId, calls, libraryVars >>
    /\ IF ~gameActive \/ currentQuestion = Nil
       THEN UNCHANGED << currentQuestion, userAnswer, score, correctAnswers,
                         totalQuestions, questionQueue, genCount, served,
                         history >>
       ELSE IF trim(userAnswer) = << >>
       THEN UNCHANGED << currentQuestion, userAnswer, score, correctAnswers,
                         totalQuestions, questionQueue, genCount, served,
                         history >>
       ELSE IF Number(trim(userAnswer)).isNaN
       THEN /\ userAnswer' = << >>
            /\ UNCHANGED << currentQuestion, score, correctAnswers,
                            totalQuestions, questionQueue, genCount, served,
                         history >>
       ELSE LET r == submitAnswer(currentQuestion, userAnswer, totalQuestions,
                                  correctAnswers, score, questionQueue,
                                  difficulty, genCount)
            IN  /\ r.gen <= MaxGen
                /\ totalQuestions' = r.totalQuestions
                /\ correctAnswers' = r.correctAnswers
                /\ score' = r.score
                /\ userAnswer' = r.userAnswer
                /\ questionQueue' = r.queue
                /\ currentQuestion' = r.currentQuestion
                /\ genCount' = r.gen
                /\ served' = Append(served, r.currentQuestion)
                /\ history' = recentAttempts(HistoryEntry(currentQuestion), history)

(***************************************************************************)
(* finishGame, and the effect that restores timeRemaining while no game is *)
(* active.                                                                 *)
(***************************************************************************)
\* The part of finishGame before its awaits, called in the current render.
\* The effect on [difficulty, gameActive] runs when gameActive turns false.
finishGame ==
    /\ gameActive' = FALSE
    /\ timeRemaining' = IF gameActive THEN DIFFICULTY_TIME(difficulty)
                        ELSE timeRemaining
    /\ IF sessionId = 0
       THEN UNCHANGED << saving, finishCalls >>
       ELSE /\ saving' = TRUE
            /\ finishCalls' = finishCalls \cup {Closure}

\* The button "Terminar partida", disabled while isStarting || saving.
ClickFinishGame ==
    /\ ~(isStarting \/ saving)
    /\ finishGame
    /\ UNCHANGED << difficulty, currentQuestion, userAnswer, score,
                    correctAnswers, totalQuestions, isStarting, sessionId,
                    questionQueue, queueRef, startRequests, timeouts,
                    nextSessionId, genCount, queueBase, served,
                    calls, history, libraryVars >>

\* persistGameState and updateHighScore have settled: the rest of
\* finishGame, which schedules the startGame of its own render.
FinishGameResumed ==
    \E call \in finishCalls :
        /\ finishCalls' = finishCalls \ {call}
        /\ saving' = FALSE
        /\ sessionId' = 0
        /\ timeouts' = timeouts \cup {call}
        /\ UNCHANGED << difficulty, currentQuestion, userAnswer, score,
                        correctAnswers, totalQuestions, timeRemaining,
                        gameActive, isStarting, questionQueue, queueRef,
                        startRequests, nextSessionId, genCount, queueBase, served,
                    calls, history, libraryVars >>

\* The 1200 ms timeout fires and calls the startGame finishGame captured.
RestartTimeout ==
    \E call \in timeouts :
        /\ timeouts' = timeouts \ {call}
        /\ startGame(call)
        /\ UNCHANGED << difficulty, currentQuestion, userAnswer, score,
                        correctAnswers, totalQuestions, timeRemaining,
                        gameActive, saving, sessionId, questionQueue, queueRef,
                        finishCalls, nextSessionId, genCount, queueBase, served,
                    calls, history, libraryVars >>

(***************************************************************************)
(* The timer effect: one tick of the interval, and finishGame as soon as   *)
(* the render sees timeRemaining === 0.                                    *)
(***************************************************************************)
\* setTimeRemaining((current) => (current > 0 ? current - 1 : 0))
tickTwice(current) == IF current > 1 THEN current - 2 ELSE 0

tick(current) == IF current > 0 THEN current - 1 ELSE 0

TimerTick ==
    /\ gameActive
    /\ timeRemaining > 0
    /\ IF tick(timeRemaining) = 0
       THEN finishGame
       ELSE /\ timeRemaining' = tick(timeRemaining)
            /\ UNCHANGED << gameActive, saving, finishCalls >>
    /\ UNCHANGED << difficulty, currentQuestion, userAnswer, score,
                    correctAnswers, totalQuestions, isStarting, sessionId,
                    questionQueue, queueRef, startRequests, timeouts,
                    nextSessionId, genCount, queueBase, served,
                    calls, history, libraryVars >>

Next ==
    \/ ClickStartGame
    \/ StartGameFailed
    \/ StartGameResolved
    \/ handleAnswerChange
    \/ handleDifficultyChange
    \/ handleSubmitAnswer
    \/ ClickFinishGame
    \/ FinishGameResumed
    \/ RestartTimeout
    \/ TimerTick

Spec == Init /\ [][Next]_vars

\* The interval of the timer effect fires every second while a game is
\* active, so a tick that stays possible happens.
FairSpec == Spec /\ WF_vars(TimerTick)

(***************************************************************************)
(* Properties of the game screen (Spec).                                   *)
(***************************************************************************)
\* const operationsInQueue = questionQueue.current.size(): the queue size
\* the render displays.
operationsInQueue == size(questionQueue)

\* C4: while a game is active, the current question and every question in
\* the buffer were generated for the difficulty selected in the UI.
C4_NoStaleQuestions ==
    gameActive =>
        /\ currentQuestion.prompt.difficulty = difficulty
        /\ \A i \in 1..Len(questionQueue) :
               questionQueue[i].prompt.difficulty = difficulty

\* C7: the buffer holds between 0 and 8 questions, and so does the queue
\* size on display.
C7_BoundedBuffer ==
    /\ size(questionQueue) \in 0..QueueTarget
    /\ operationsInQueue \in 0..QueueTarget

\* A game whose buffer the player has drained.
C7_Witness ==
    /\ gameActive
    /\ totalQuestions = QueueTarget - 1
    /\ size(questionQueue) = 0
    /\ operationsInQueue = 0

TimeChangesInGame ==
    /\ gameActive
    /\ gameActive'
    /\ queueRef' = queueRef
    /\ timeRemaining' # timeRemaining

\* A step that takes an active game with one second left out of that second.
LastSecondEnds ==
    /\ gameActive
    /\ timeRemaining = 1
    /\ queueRef' = queueRef
    /\ timeRemaining' # timeRemaining

\* C23: while a game is active each timer tick lowers timeRemaining by
\* exactly 1; when it reaches 0 the game is no longer active and finishGame
\* has run once for it: with a session, one call that was not waiting
\* before is waiting for its awaits and saving is set; an active game never
\* shows 0 seconds; and under fair ticking every active game eventually
\* ends.
C23_TimerEndsGame ==
    /\ [](gameActive => timeRemaining > 0)
    /\ [][/\ TimeChangesInGame => timeRemaining' = timeRemaining - 1
          /\ LastSecondEnds =>
                /\ ~gameActive'
                /\ sessionId # 0 =>
                      /\ Closure \notin finishCalls
                      /\ finishCalls' = finishCalls \cup {Closure}
                      /\ saving']_vars
    /\ (gameActive ~> ~gameActive)

\* The ticks have taken a game with a session and answered questions down
\* to its last second.
C23_Witness ==
    /\ gameActive
    /\ sessionId # 0
    /\ totalQuestions > 0
    /\ timeRemaining = 1

(***************************************************************************)
(* LayoutManager on its own: a manager built from GameScreen's panels      *)
(* ("source"), its methods called in any order with any arguments.        *)
(* The call field records the last call and what it returned (TRUE for a   *)
(* method that returns nothing).                                           *)
(***************************************************************************)
\* The arrays a caller may pass: the initial panels in any arrangement.
PanelArrays ==
    { [i \in 1..Len(InitialPanels) |-> InitialPanels[p[i]]] :
        p \in Permutations(1..Len(InitialPanels)) }

LayoutInit ==
    /\ ScreenIdle
    /\ PanelIdle
    /\ SessionIdle
    /\ GamesIdle
    /\ AuthIdle
    /\ FormIdle
    /\ \E initialPanels \in PanelArrays :
          LET r == LayoutManager(<< >>, initialPanels)
              c == collect(r.heap, [source |-> r.panels, loaded |-> << >>])
          IN  layoutManager =
                  [heap |-> c.heap,
                   panels |-> c.panels,
                   call |-> [op |-> "constructor", manager |-> "source",
                             id |-> "", ret |-> TRUE]]

\* Method op of manager m, called with id, has returned r.
LayoutReturn(m, op, id, r) ==
    LET c == collect(r.heap, [layoutManager.panels EXCEPT ![m] = r.panels])
    IN  /\ layoutManager' =
              [heap |-> c.heap,
               panels |-> c.panels,
               call |-> [op |-> op, manager |-> m, id |-> id, ret |-> r.ret]]
        /\ UNCHANGED notLayoutVars

LayoutAddPanel ==
    \E id \in PanelIds, order \in PanelOrders, visible \in BOOLEAN :
        /\ Len(layoutManager.panels.source) < MaxPanels
        /\ LayoutReturn("source", "addPanel", id,
                        addPanel(layoutManager.heap, layoutManager.panels.source,
                                 [id |-> id, order |-> order, visible |-> visible]))

LayoutRemovePanel ==
    \E id \in PanelIds :
        LayoutReturn("source", "removePanel", id,
                     removePanel(layoutManager.heap, layoutManager.panels.source, id))

\* updatePanel with the one field the two methods below do not set.
LayoutUpdatePanel ==
    \E id \in PanelIds, newId \in PanelIds :
        LayoutReturn("source", "updatePanel", id,
                     updatePanel(layoutManager.heap, layoutManager.panels.source, id,
                                 [id |-> newId]))

LayoutReorderPanel ==
    \E id \in PanelIds, newOrder \in PanelOrders :
        LayoutReturn("source", "reorderPanel", id,
                     reorderPanel(layoutManager.heap, layoutManager.panels.source, id, newOrder))

LayoutSetPanelVisibility ==
    \E id \in PanelIds, visible \in BOOLEAN :
        LayoutReturn("source", "setPanelVisibility", id,
                     setPanelVisibility(layoutManager.heap, layoutManager.panels.source, id, visible))

LayoutMoveUp ==
    \E id \in PanelIds :
        LayoutReturn("source", "moveUp", id, moveUp(layoutManager.heap, layoutManager.panels.source, id))

LayoutMoveDown ==
    \E id \in PanelIds :
        LayoutReturn("source", "moveDown", id, moveDown(layoutManager.heap, layoutManager.panels.source, id))

LayoutReset ==
    \E defaultPanels \in PanelArrays :
        LayoutReturn("source", "reset", "", reset(layoutManager.heap, defaultPanels))

\* source.fromJSON(source.toJSON())
LayoutFromJSON ==
    LayoutReturn("source", "fromJSON", "",
                 fromJSON(layoutManager.heap, toJSON(layoutManager.panels.source)))

LayoutNext ==
    \/ LayoutAddPanel
    \/ LayoutRemovePanel
    \/ LayoutUpdatePanel
    \/ LayoutReorderPanel
    \/ LayoutSetPanelVisibility
    \/ LayoutMoveUp
    \/ LayoutMoveDown
    \/ LayoutReset
    \/ LayoutFromJSON

LayoutSpec == LayoutInit /\ [][LayoutNext]_vars

(***************************************************************************)
(* A layout copied into a second manager: the source manager is built up   *)
(* by addPanel, removePanel and updatePanel and reloads its own export;    *)
(* "loaded" is a new empty manager that loads what the source exports and  *)
(* is then updated once, before another new manager takes its place.       *)
(***************************************************************************)
SourceBuilds ==
    /\ layoutManager.panels.loaded = << >>
    /\ \/ LayoutAddPanel
       \/ LayoutRemovePanel
       \/ LayoutUpdatePanel
       \/ LayoutFromJSON

\* loaded = new LayoutManager()
LoadedNew ==
    /\ layoutManager.panels.loaded # << >>
    /\ LayoutReturn("loaded", "constructor", "", LayoutManager(layoutManager.heap, << >>))

\* loaded.fromJSON(source.toJSON())
LoadedFromJSON ==
    LayoutReturn("loaded", "fromJSON", "",
                 fromJSON(layoutManager.heap, toJSON(layoutManager.panels.source)))

JustLoaded == layoutManager.call.manager = "loaded" /\ layoutManager.call.op = "fromJSON"

LoadedUpdatePanel ==
    \E id \in PanelIds, newId \in PanelIds :
        /\ JustLoaded
        /\ LayoutReturn("loaded", "updatePanel", id,
                        updatePanel(layoutManager.heap, layoutManager.panels.loaded, id,
                                    [id |-> newId]))

LoadedReorderPanel ==
    \E id \in PanelIds, newOrder \in PanelOrders :
        /\ JustLoaded
        /\ LayoutReturn("loaded", "reorderPanel", id,
                        reorderPanel(layoutManager.heap, layoutManager.panels.loaded, id, newOrder))

LoadedSetPanelVisibility ==
    \E id \in PanelIds, visible \in BOOLEAN :
        /\ JustLoaded
        /\ LayoutReturn("loaded", "setPanelVisibility", id,
                        setPanelVisibility(layoutManager.heap, layoutManager.panels.loaded, id,
                                           visible))

LayoutCopyNext ==
    \/ SourceBuilds
    \/ LoadedNew
    \/ LoadedFromJSON
    \/ LoadedUpdatePanel
    \/ LoadedReorderPanel
    \/ LoadedSetPanelVisibility

LayoutCopySpec == LayoutInit /\ [][LayoutCopyNext]_vars

(***************************************************************************)
(* Claims about LayoutManager.                                             *)
(***************************************************************************)
\* getAllPanels() of manager m, as configurations.
PanelsOf(m) == Configs(layoutManager.heap, getAllPanels(layoutManager.panels[m]))

NonDecreasing(configs) ==
    \A i, j \in 1..Len(configs) : i < j => configs[i].order <= configs[j].order

\* sub lists elements of list, each once, in the order list has them.
RECURSIVE IsSubsequence(_, _)
IsSubsequence(sub, list) ==
    IF sub = << >> THEN TRUE
    ELSE IF list = << >> THEN FALSE
    ELSE IF Head(sub) = Head(list) THEN IsSubsequence(Tail(sub), Tail(list))
    ELSE IsSubsequence(sub, Tail(list))

\* C12: in every state getAllPanels() of a manager is in non-decreasing
\* order of the panels' order field, and getVisiblePanels() is exactly its
\* visible panels, in that same order.
C12_LayoutSorted ==
    \A m \in Managers :
        LET all == getAllPanels(layoutManager.panels[m])
            visible == getVisiblePanels(layoutManager.heap, layoutManager.panels[m])
        IN  /\ NonDecreasing(Configs(layoutManager.heap, all))
            /\ IsSubsequence(visible, all)
            /\ \A i \in 1..Len(all) :
                  layoutManager.heap[all[i]].visible
                      <=> \E k \in 1..Len(visible) : visible[k] = all[i]

\* A reorderPanel call has put the panel constructed second ahead of the
\* panel constructed first.
C12_Witness ==
    /\ layoutManager.call.op = "reorderPanel"
    /\ layoutManager.call.ret
    /\ Len(layoutManager.panels.source) = 2
    /\ PanelsOf("source")[1].id = InitialPanels[2].id
    /\ PanelsOf("source")[2].id = InitialPanels[1].id
    /\ PanelsOf("source")[1].order < PanelsOf("source")[2].order

\* The layout has pairwise distinct ids and the orders 0..n-1.
OrdersZeroToN(configs) ==
    /\ \A i \in 1..Len(configs) : configs[i].order = i - 1
    /\ \A i, j \in 1..Len(configs) : i # j => configs[i].id # configs[j].id

\* C13: for a layout with orders 0..n-1, moveUp(id) on a panel that is not
\* first returns true and puts the panel one position earlier, ahead of the
\* panel that preceded it; on the first panel or an unknown id it returns
\* false and changes nothing.
C13_MoveUpMovesPanel ==
    [][ (layoutManager'.call.op = "moveUp" /\ OrdersZeroToN(PanelsOf("source")))
        => LET before == PanelsOf("source")
               after == PanelsOf("source")'
               id == layoutManager'.call.id
           IN  IF \E i \in 2..Len(before) : before[i].id = id
               THEN /\ layoutManager'.call.ret
                    /\ Len(after) = Len(before)
                    /\ \A i \in 2..Len(before) :
                          before[i].id = id
                              => /\ after[i - 1].id = id
                                 /\ after[i].id = before[i - 1].id
               ELSE /\ ~layoutManager'.call.ret
                    /\ after = before ]_vars

\* C14: for a layout with orders 0..n-1, moveDown(id) on a panel that is
\* not last returns true and puts the panel one position later, behind the
\* panel that followed it; on the last panel or an unknown id it returns
\* false and changes nothing.
C14_MoveDownMovesPanel ==
    [][ (layoutManager'.call.op = "moveDown" /\ OrdersZeroToN(PanelsOf("source")))
        => LET before == PanelsOf("source")
               after == PanelsOf("source")'
               id == layoutManager'.call.id
           IN  IF \E i \in 1..(Len(before) - 1) : before[i].id = id
               THEN /\ layoutManager'.call.ret
                    /\ Len(after) = Len(before)
                    /\ \A i \in 1..(Len(before) - 1) :
                          before[i].id = id
                              => /\ after[i + 1].id = id
                                 /\ after[i].id = before[i + 1].id
               ELSE /\ ~layoutManager'.call.ret
                    /\ after = before ]_vars

\* C15: no two panels of a layout share an id.
C15_UniquePanelIds ==
    \A i, j \in 1..Len(layoutManager.panels.source) :
        i # j => PanelsOf("source")[i].id # PanelsOf("source")[j].id

\* C16: fromJSON(toJSON()) leaves the loading manager, the source itself or
\* a new one, with the source's configurations in the source's order, and
\* no call on the loaded manager changes the panels of the source.
C16_JsonRoundTrip ==
    [][ /\ \A m \in Managers :
              (layoutManager'.call.op = "fromJSON" /\ layoutManager'.call.manager = m)
                  => PanelsOf(m)' = PanelsOf("source")
        /\ layoutManager'.call.manager = "loaded"
            => PanelsOf("source")' = PanelsOf("source") ]_vars

\* The loaded manager holds a copy of a two-panel layout and an update has
\* made it differ from the source.
C16_Witness ==
    /\ layoutManager.call.manager = "loaded"
    /\ layoutManager.call.op \in {"updatePanel", "reorderPanel", "setPanelVisibility"}
    /\ layoutManager.call.ret
    /\ Len(layoutManager.panels.source) = 2
    /\ Len(layoutManager.panels.loaded) = 2
    /\ PanelsOf("loaded") # PanelsOf("source")

(***************************************************************************)
(* PanelStateManager on its own: a manager constructed from any record     *)
(* over the panel ids, the one GameScreen passes among them,                *)
(* its methods called in any order, and the togglePanel callback of        *)
(* GameScreen, which copies the states into the panelStates cell.          *)
(* The call field records the last call: its panel id, what getPanel(id)   *)
(* was before it and what it returned (TRUE for a method that returns      *)
(* nothing).                                                               *)
(***************************************************************************)
PanelInit ==
    /\ ScreenIdle
    /\ LayoutIdle
    /\ SessionIdle
    /\ GamesIdle
    /\ AuthIdle
    /\ FormIdle
    /\ \E initialPanels \in PanelRecords :
          /\ panelManager = [map |-> PanelStateManager(initialPanels),
                              call |-> [op |-> "constructor", id |-> "",
                                        ret |-> TRUE, before |-> FALSE]]
          /\ panelStates = getAllStates(PanelStateManager(initialPanels))

PanelReturn(op, id, map, ret) ==
    /\ panelManager' =
          [map |-> map,
           call |-> [op |-> op, id |-> id, ret |-> ret,
                     before |-> getPanelState(panelManager.map, id)]]
    /\ UNCHANGED notPanelVars

PanelSetPanel ==
    \E panelId \in PanelKeys, isExpanded \in BOOLEAN :
        /\ PanelReturn("setPanel", panelId,
                       setPanel(panelManager.map, panelId, isExpanded), TRUE)
        /\ UNCHANGED panelStates

PanelTogglePanel ==
    \E panelId \in PanelKeys :
        LET r == togglePanel(panelManager.map, panelId)
        IN  /\ PanelReturn("togglePanel", panelId, r.map, r.ret)
            /\ UNCHANGED panelStates

\* The togglePanel callback of GameScreen.
ClickTogglePanel ==
    \E panelId \in PanelKeys :
        LET r == togglePanel(panelManager.map, panelId)
        IN  /\ PanelReturn("togglePanel", panelId, r.map, r.ret)
            /\ panelStates' = getAllStates(r.map)

PanelExpandAll ==
    /\ PanelReturn("expandAll", "", expandAll(panelManager.map), TRUE)
    /\ UNCHANGED panelStates

PanelCollapseAll ==
    /\ PanelReturn("collapseAll", "", collapseAll(panelManager.map), TRUE)
    /\ UNCHANGED panelStates

PanelClear ==
    /\ PanelReturn("clear", "", clear(panelManager.map), TRUE)
    /\ UNCHANGED panelStates

PanelNext ==
    \/ PanelSetPanel
    \/ PanelTogglePanel
    \/ ClickTogglePanel
    \/ PanelExpandAll
    \/ PanelCollapseAll
    \/ PanelClear

PanelSpec == PanelInit /\ [][PanelNext]_vars

(***************************************************************************)
(* Claims about PanelStateManager.                                         *)
(***************************************************************************)
\* C17: togglePanel(id) returns the negation of what getPanel(id) was,
\* getPanel(id) then equals the returned value, a second togglePanel(id)
\* in a row restores what getPanel(id) was before the first, and no other
\* panel changes its state or its registration.
C17_ToggleFlipsOnePanel ==
    [][ panelManager'.call.op = "togglePanel"
        => LET id == panelManager'.call.id
           IN  /\ panelManager'.call.ret = ~getPanelState(panelManager.map, id)
               /\ getPanelState(panelManager'.map, id) = panelManager'.call.ret
               /\ (panelManager.call.op = "togglePanel" /\ panelManager.call.id = id)
                     => getPanelState(panelManager'.map, id) = panelManager.call.before
               /\ \A other \in PanelKeys \ {id} :
                     /\ getPanelState(panelManager'.map, other)
                          = getPanelState(panelManager.map, other)
                     /\ hasPanelState(panelManager'.map, other)
                          = hasPanelState(panelManager.map, other) ]_vars

\* togglePanel has expanded a panel that was collapsed or not registered,
\* next to a registered panel that is still collapsed.
C17_Witness ==
    /\ panelManager.call.op = "togglePanel"
    /\ panelManager.call.ret
    /\ ~panelManager.call.before
    /\ getPanelState(panelManager.map, panelManager.call.id)
    /\ \E other \in DOMAIN panelManager.map :
          other # panelManager.call.id /\ ~panelManager.map[other]

\* C18: expandAll leaves every registered panel expanded and
\* countExpanded() = size(); collapseAll leaves every registered panel
\* collapsed and countExpanded() = 0; neither changes which panels are
\* registered; and always 0 <= countExpanded() <= size().
C18_ExpandCollapseAll ==
    /\ [](0 <= countExpanded(panelManager.map)
            /\ countExpanded(panelManager.map) <= panelCount(panelManager.map))
    /\ [][ /\ panelManager'.call.op = "expandAll"
              => /\ \A k \in DOMAIN panelManager'.map : getPanelState(panelManager'.map, k)
                 /\ countExpanded(panelManager'.map) = panelCount(panelManager'.map)
                 /\ DOMAIN panelManager'.map = DOMAIN panelManager.map
           /\ panelManager'.call.op = "collapseAll"
              => /\ \A k \in DOMAIN panelManager'.map : ~getPanelState(panelManager'.map, k)
                 /\ countExpanded(panelManager'.map) = 0
                 /\ DOMAIN panelManager'.map = DOMAIN panelManager.map ]_vars

\* expandAll has run on a manager with three registered panels.
C18_Witness ==
    /\ panelManager.call.op = "expandAll"
    /\ panelCount(panelManager.map) = 3
    /\ countExpanded(panelManager.map) = 3

(***************************************************************************)
(* SessionQueue on its own: a queue constructed with any maxSize of the    *)
(* model, enqueue and dequeue called in any order.  The arrivals field    *)
(* counts the enqueue calls and the call field records the last call and   *)
(* the item a dequeue returned.                                            *)
(***************************************************************************)
SessionInit ==
    /\ ScreenIdle
    /\ LayoutIdle
    /\ PanelIdle
    /\ GamesIdle
    /\ AuthIdle
    /\ FormIdle
    /\ \E maxSize \in SessionQueueSizes :
          sessionHistory =
              [items |-> SessionQueue(maxSize).items,
               maxSize |-> SessionQueue(maxSize).maxSize,
               arrivals |-> 0,
               call |-> [op |-> "constructor", ret |-> 0]]

SessionEnqueue ==
    /\ sessionHistory.arrivals < MaxEvents
    /\ sessionHistory' =
          [items |-> sessionEnqueue(sessionHistory.items, sessionHistory.maxSize,
                                    sessionHistory.arrivals + 1),
           maxSize |-> sessionHistory.maxSize,
           arrivals |-> sessionHistory.arrivals + 1,
           call |-> [op |-> "enqueue", ret |-> 0]]
    /\ UNCHANGED notSessionVars

SessionDequeue ==
    LET r == sessionDequeue(sessionHistory.items)
    IN  /\ sessionHistory' =
              [items |-> r.items,
               maxSize |-> sessionHistory.maxSize,
               arrivals |-> sessionHistory.arrivals,
               call |-> [op |-> "dequeue", ret |-> r.ret]]
        /\ UNCHANGED notSessionVars

SessionNext ==
    \/ SessionEnqueue
    \/ SessionDequeue

SessionQueueSpec == SessionInit /\ [][SessionNext]_vars

(***************************************************************************)
(* Claims about SessionQueue.                                              *)
(***************************************************************************)
\* C19: for maxSize >= 1 the queue never holds more than maxSize items,
\* toArray() lists consecutive arrivals, oldest first, ending with the
\* latest arrival unless dequeue calls have emptied the queue, and an
\* enqueue on a full queue removes the oldest item and nothing else.
C19_BoundedSessionFifo ==
    /\ [](sessionHistory.maxSize >= 1
            => LET list == toArray(sessionHistory.items)
               IN  /\ sessionSize(sessionHistory.items) <= sessionHistory.maxSize
                   /\ \A i \in 1..(Len(list) - 1) : list[i + 1] = list[i] + 1
                   /\ (sessionHistory.call.op = "enqueue"
                         => list[Len(list)] = sessionHistory.arrivals))
    /\ [][ (sessionHistory.maxSize >= 1 /\ sessionHistory'.call.op = "enqueue")
           => IF sessionSize(sessionHistory.items) = sessionHistory.maxSize
              THEN sessionHistory'.items = Append(Tail(sessionHistory.items), sessionHistory'.arrivals)
              ELSE sessionHistory'.items = Append(sessionHistory.items, sessionHistory'.arrivals) ]_vars

\* The queue created like AuthService's is full and has dropped its oldest
\* events.
C19_Witness ==
    /\ sessionHistory.maxSize = SessionHistorySize
    /\ sessionHistory.call.op = "enqueue"
    /\ sessionSize(sessionHistory.items) = SessionHistorySize
    /\ sessionPeek(sessionHistory.items) > 1

(***************************************************************************)
(* The leaderboard on its own: GET /games resolves and fetchGames stores   *)
(* the list it carries.  The server is free in what it answers; here each  *)
(* answer holds one result more than the list before, at its end or at its *)
(* start, so every list of at most MaxGames results is reached.  The       *)
(* loading, error and bestScore cells of fetchGames are not part of the    *)
(* state.                                                                  *)
(***************************************************************************)
notBoardVars == << screenVars, layoutVars, panelVars, sessionVars,
                   authVars, formVars >>

LeaderboardInit ==
    /\ ScreenIdle
    /\ LayoutIdle
    /\ PanelIdle
    /\ SessionIdle
    /\ AuthIdle
    /\ FormIdle
    /\ games = << >>

ServerAnswers(previous) ==
    UNION { { Append(previous, g), << g >> \o previous } : g \in GameResults }

FetchGamesResolved ==
    /\ Len(games) < MaxGames
    /\ \E data \in ServerAnswers(games) : games' = data
    /\ UNCHANGED notBoardVars

LeaderboardNext == FetchGamesResolved

LeaderboardSpec == LeaderboardInit /\ [][LeaderboardNext]_vars

(***************************************************************************)
(* Claims about the leaderboard.                                           *)
(***************************************************************************)
\* How many results of the list carry the stamp.
CountStamp(results, stamp) ==
    Cardinality({ i \in 1..Len(results) : results[i].createdAt = stamp })

\* How many results of the list are newer than the stamp.
CountNewer(results, stamp) ==
    Cardinality({ i \in 1..Len(results) : results[i].createdAt > stamp })

\* How many results with the stamp are among the n most recent of the list.
AmongMostRecent(results, stamp, n) ==
    IF n - CountNewer(results, stamp) <= 0
    THEN 0
    ELSE Min(CountStamp(results, stamp), n - CountNewer(results, stamp))

\* C21: for every fetched games list the leaderboard holds at most 10
\* entries, and when the list has more than 10 games the entries are the 10
\* most recent games of the list.
C21_LeaderboardLastTen ==
    /\ Len(leaderboard(games)) <= LeaderboardSize
    /\ Len(games) > LeaderboardSize =>
          \A stamp \in Stamps :
              CountStamp(leaderboard(games), stamp)
                  = AmongMostRecent(games, stamp, LeaderboardSize)

(***************************************************************************)
(* The high score on its own: the end of finishGame (GameScreen.tsx) and   *)
(* updateHighScore of AuthService.  The service is constructed with any    *)
(* stored user or none, and the user stays the same throughout.  Renders   *)
(* call finishGame with the score and session they captured; a call waits  *)
(* for persistGameState, compares its score with the highScore the user    *)
(* object holds at that moment, and waits for updateHighScore if it is     *)
(* higher.  The start button is disabled by gameActive || isStarting and   *)
(* not by saving, and startGame clears saving, so a later game can finish  *)
(* while the finishGame of an earlier one is still waiting: calls overlap. *)
(* finishCalls holds the waiting calls, each with its score and the await  *)
(* it is at.  The call field records the last event.                       *)
(***************************************************************************)
notAuthVars == << difficulty, currentQuestion, questionQueue, queueRef,
                  genCount, queueBase, served, calls, userAnswer, score,
                  correctAnswers, totalQuestions, timeRemaining, gameActive,
                  isStarting, saving, sessionId, startRequests, timeouts,
                  nextSessionId, history, layoutVars, panelVars,
                  sessionVars, boardVars, formVars >>

AuthReturn(service, op, newScore, ret) ==
    [currentUser |-> service.currentUser,
     localStorage |-> service.localStorage,
     call |-> [op |-> op, score |-> newScore, ret |-> ret]]

HighScoreInit ==
    /\ ScreenIdle
    /\ LayoutIdle
    /\ PanelIdle
    /\ SessionIdle
    /\ GamesIdle
    /\ FormIdle
    /\ \E stored \in Users \cup {NoUser} :
          authService = AuthReturn(AuthService(stored), "constructor", 0, TRUE)

\* finishGame up to its first await, in a render with this score and
\* session (0 for null).
HighScoreFinishGame ==
    \E finalScore \in Scores, session \in 0..1 :
        /\ finishCalls' =
              IF session = 0
              THEN finishCalls
              ELSE finishCalls \cup
                       {[score |-> finalScore, awaiting |-> "persistGameState"]}
        /\ authService' = AuthReturn(authService, "finishGame", finalScore, TRUE)
        /\ UNCHANGED notAuthVars

\* persistGameState has settled:
\* if (currentUser && score > currentUser.highScore) await updateHighScore
HighScorePersistSettled ==
    \E call \in finishCalls :
        /\ call.awaiting = "persistGameState"
        /\ LET currentUser == getCurrentUser(authService)
               sends == currentUser # NoUser
                            /\ call.score > currentUser.highScore
           IN  /\ finishCalls' =
                     IF sends
                     THEN (finishCalls \ {call}) \cup
                              {[score |-> call.score,
                                awaiting |-> "updateHighScore"]}
                     ELSE finishCalls \ {call}
               /\ authService' =
                     AuthReturn(authService, "persistGameState", call.score,
                                sends)
        /\ UNCHANGED notAuthVars

\* The PUT of updateHighScore has settled, accepted by the server or not.
HighScoreUpdateSettled ==
    \E call \in finishCalls, ok \in BOOLEAN :
        /\ call.awaiting = "updateHighScore"
        /\ finishCalls' = finishCalls \ {call}
        /\ LET r == updateHighScore(authService, authService.currentUser.id,
                                    call.score, ok)
           IN  authService' =
                   AuthReturn(r.service, "updateHighScore", call.score, r.ret)
        /\ UNCHANGED notAuthVars

HighScoreNext ==
    \/ HighScoreFinishGame
    \/ HighScorePersistSettled
    \/ HighScoreUpdateSettled

HighScoreSpec == HighScoreInit /\ [][HighScoreNext]_vars

(***************************************************************************)
(* Claims about the high score.                                            *)
(***************************************************************************)
\* An update the server accepted: memory and localStorage hold its score.
AcceptedUpdateSaved ==
    (authService'.call.op = "updateHighScore" /\ authService'.call.ret)
        => /\ authService'.currentUser.highScore = authService'.call.score
           /\ authService'.localStorage.highScore = authService'.call.score

\* The stored highScore does not go down.
StoredHighScoreKept ==
    authService'.localStorage.highScore >= authService.localStorage.highScore

\* A call whose score is not above the highScore sends no update.
NoUpdateAtOrBelow ==
    (authService'.call.op = "persistGameState"
        /\ authService'.call.score <= authService.currentUser.highScore)
        => ~authService'.call.ret

\* C22: a finished game with a session whose score is strictly above the
\* logged-in user's highScore, once the server accepts the update, leaves
\* that score as the user's highScore in memory and in localStorage; the
\* stored highScore never decreases across games; and a finished game with
\* score <= highScore sends no high-score update.
C22_HighScoreNeverLowered ==
    [][AcceptedUpdateSaved /\ StoredHighScoreKept /\ NoUpdateAtOrBelow]_vars

(***************************************************************************)
(* The AuthService class on its own: its static instance field, every      *)
(* AuthService object constructed so far, and localStorage.  An object     *)
(* holds currentUser, the items of its session history and the pages of    *)
(* its navigation stack; objects are named by their place in the objects   *)
(* sequence and 0 stands for an undefined instance field.  App, Login,     *)
(* Register and GameScreen call AuthService.getInstance() in every render  *)
(* and keep what it returned (refs); their handlers then call the object   *)
(* they hold.  A session event is named by the number of the call.         *)
(***************************************************************************)
Components == {"App", "Login", "Register", "GameScreen"}

\* private constructor()
newAuthService(localStorage) ==
    [currentUser |-> loadUserFromStorage(localStorage),
     sessionHistory |-> SessionQueue(SessionHistorySize).items,
     navigationHistory |-> << >>]

getInstanceAlwaysConstructs(class) ==
    [class |-> [class EXCEPT
                    !.objects = Append(@, newAuthService(class.localStorage)),
                    !.instance = Len(class.objects) + 1],
     ret |-> Len(class.objects) + 1]

\* public static getInstance(): AuthService
getInstance(class) ==
    IF class.instance = 0
    THEN [class |-> [class EXCEPT
                        !.objects = Append(@, newAuthService(class.localStorage)),
                        !.instance = Len(class.objects) + 1],
          ret |-> Len(class.objects) + 1]
    ELSE [class |-> class, ret |-> class.instance]

\* login and register after a response with success and a user:
\* setCurrentUser(data.user), then sessionHistory.enqueue(...)
signedIn(class, this, user, event) ==
    LET saved == saveUserToStorage([currentUser |-> user,
                                    localStorage |-> class.localStorage])
    IN  [class EXCEPT
            !.objects[this].currentUser = saved.currentUser,
            !.objects[this].sessionHistory =
                sessionEnqueue(@, SessionHistorySize, event),
            !.localStorage = saved.localStorage]

\* logout()
logout(class, this, event) ==
    [class EXCEPT
        !.objects[this].sessionHistory =
            IF class.objects[this].currentUser # NoUser
            THEN sessionEnqueue(@, SessionHistorySize, event)
            ELSE @,
        !.objects[this].currentUser = NoUser,
        !.objects[this].navigationHistory = << >>,
        !.localStorage = NoUser]

\* pushNavigation(page)
pushNavigation(class, this, page) ==
    [class EXCEPT !.objects[this].navigationHistory = Append(@, page)]

SingletonInit ==
    /\ ScreenIdle
    /\ LayoutIdle
    /\ PanelIdle
    /\ SessionIdle
    /\ GamesIdle
    /\ FormIdle
    /\ \E stored \in Users \cup {NoUser} :
          authService = [instance |-> 0,
                         objects |-> << >>,
                         localStorage |-> stored,
                         refs |-> [c \in Components |-> 0],
                         events |-> 0]

\* Everything but refs and events, which the class does not hold.
ClassOf(service) ==
    [instance |-> service.instance,
     objects |-> service.objects,
     localStorage |-> service.localStorage]

AfterCall(class, refs) ==
    [instance |-> class.instance,
     objects |-> class.objects,
     localStorage |-> class.localStorage,
     refs |-> refs,
     events |-> authService.events + 1]

\* const authService = AuthService.getInstance(); in a component body
RenderComponent ==
    \E c \in Components :
        /\ authService.events < MaxCalls
        /\ LET r == getInstance(ClassOf(authService))
           IN  authService' =
                   AfterCall(r.class, [authService.refs EXCEPT ![c] = r.ret])
        /\ UNCHANGED << finishCalls, notAuthVars >>

\* Login.handleSubmit and Register.handleSubmit after the server answered
\* with success, then App.handleLoginSuccess / handleRegisterSuccess.
SignInSucceeded ==
    \E c \in {"Login", "Register"}, user \in Users :
        /\ authService.events < MaxCalls
        /\ authService.refs[c] # 0
        /\ authService.refs["App"] # 0
        /\ authService' =
              AfterCall(pushNavigation(
                            signedIn(ClassOf(authService), authService.refs[c],
                                     user, authService.events + 1),
                            authService.refs["App"], "game"),
                        authService.refs)
        /\ UNCHANGED << finishCalls, notAuthVars >>

\* App.handleLogout, passed to GameScreen as onLogout.
LogoutClicked ==
    /\ authService.events < MaxCalls
    /\ authService.refs["App"] # 0
    /\ authService.refs["GameScreen"] # 0
    /\ authService' =
          AfterCall(logout(ClassOf(authService), authService.refs["App"],
                           authService.events + 1),
                    authService.refs)
    /\ UNCHANGED << finishCalls, notAuthVars >>

SingletonNext ==
    \/ RenderComponent
    \/ SignInSucceeded
    \/ LogoutClicked

SingletonSpec == SingletonInit /\ [][SingletonNext]_vars

(***************************************************************************)
(* Claims about the shared AuthService.                                    *)
(***************************************************************************)
\* The object a component holds.
ServiceOf(c) == authService.objects[authService.refs[c]]

\* C24: AuthService.getInstance() returns the same instance on every call:
\* at most one object is ever constructed, every component that has
\* rendered holds it, and so the components observe the same currentUser,
\* session history and navigation stack.
C24_OneSharedAuthService ==
    /\ Len(authService.objects) <= 1
    /\ \A c1, c2 \in Components :
          (authService.refs[c1] # 0 /\ authService.refs[c2] # 0)
              => /\ authService.refs[c1] = authService.instance
                 /\ authService.refs[c1] = authService.refs[c2]
                 /\ getCurrentUser(ServiceOf(c1)) = getCurrentUser(ServiceOf(c2))
                 /\ ServiceOf(c1).sessionHistory = ServiceOf(c2).sessionHistory
                 /\ ServiceOf(c1).navigationHistory
                        = ServiceOf(c2).navigationHistory

\* Login signed a user in and GameScreen, rendered afterwards, sees that
\* user, the event and the page App pushed.
C24_Witness ==
    /\ authService.refs["Login"] # 0
    /\ authService.refs["GameScreen"] # 0
    /\ getCurrentUser(ServiceOf("GameScreen")) # NoUser
    /\ ServiceOf("GameScreen").sessionHistory # << >>
    /\ ServiceOf("GameScreen").navigationHistory = << "game" >>

(***************************************************************************)
(* The Login and Register forms (components/Login.tsx and Register in      *)
(* components/GameScreen.tsx): the text cells, error, loading and whether  *)
(* a request to the AuthService is waiting for its answer.  A text is the  *)
(* sequence of its UTF-16 code units, which is what String.length counts.  *)
(* The texts tried have the lengths around the two limits and end in a     *)
(* letter or in a space; the call field records the last handler and, for  *)
(* handleSubmit, the request it sent.                                      *)
(***************************************************************************)
MinLength == 5
MaxLength == 15

Letters ==
    {"a", "b", "c", "d", "e", "f", "g", "h", "i", "j", "k", "l", "m",
     "n", "o", "p", "q", "r", "s", "t", "u", "v", "w", "x", "y", "z",
     "A", "B", "C", "D", "E", "F", "G", "H", "I", "J", "K", "L", "M",
     "N", "O", "P", "Q", "R", "S", "T", "U", "V", "W", "X", "Y", "Z"}
Digits == {"0", "1", "2", "3", "4", "5", "6", "7", "8", "9"}

\* /^[a-zA-Z0-9_]+$/.test(text)
testWord(text) ==
    /\ Len(text) >= 1
    /\ \A i \in 1..Len(text) : text[i] \in Letters \cup Digits \cup {"_"}

\* A text of n code units: letters, digits and underscores, then last.
Filler == << "a", "Z", "7", "_" >>
Fill(n, last) ==
    [i \in 1..n |-> IF i = n THEN last ELSE Filler[((i - 1) % 4) + 1]]

FormTexts ==
    { << >> } \cup
    { Fill(n, last) :
        n \in {MinLength - 1, MinLength, MaxLength, MaxLength + 1},
        last \in {"q", " "} }

NoError == ""

\* The validations of Register.handleSubmit: the message of the first one
\* that fails.
registerErrorNoConfirm(username, password, confirmPassword, nickname) ==
    IF Len(username) < MinLength \/ Len(username) > MaxLength
    THEN "El usuario debe tener entre 5 y 15 caracteres"
    ELSE IF ~testWord(username)
    THEN "El usuario solo puede contener letras, numeros y guiones bajos"
    ELSE IF Len(password) < MinLength \/ Len(password) > MaxLength
    THEN "La contrasena debe tener entre 5 y 15 caracteres"
    ELSE IF Len(nickname) < MinLength \/ Len(nickname) > MaxLength
    THEN "El apodo debe tener entre 5 y 15 caracteres"
    ELSE NoError

registerError(username, password, confirmPassword, nickname) ==
    IF Len(username) < MinLength \/ Len(username) > MaxLength
    THEN "El usuario debe tener entre 5 y 15 caracteres"
    ELSE IF ~testWord(username)
    THEN "El usuario solo puede contener letras, numeros y guiones bajos"
    ELSE IF Len(password) < MinLength \/ Len(password) > MaxLength
    THEN "La contrasena debe tener entre 5 y 15 caracteres"
    ELSE IF password # confirmPassword
    THEN "Las contrasenas no coinciden"
    ELSE IF Len(nickname) < MinLength \/ Len(nickname) > MaxLength
    THEN "El apodo debe tener entre 5 y 15 caracteres"
    ELSE NoError

\* The validations of Login.handleSubmit.
loginError(username, password) ==
    IF Len(username) < MinLength \/ Len(username) > MaxLength
    THEN "El usuario debe tener entre 5 y 15 caracteres"
    ELSE IF Len(password) < MinLength \/ Len(password) > MaxLength
    THEN "La contrasena debe tener entre 5 y 15 caracteres"
    ELSE NoError

\* handleSubmit up to its await: setError(''), setLoading(true), then the
\* validations; a form that passes them calls the AuthService.
handleSubmit(form, failure, request) ==
    IF failure # NoError
    THEN [form EXCEPT !.error = failure, !.loading = FALSE,
                      !.call = [op |-> "handleSubmit", sent |-> << >>]]
    ELSE [form EXCEPT !.error = NoError, !.loading = TRUE, !.waiting = TRUE,
                      !.call = [op |-> "handleSubmit", sent |-> << request >>]]

notFormVars == << finishCalls, difficulty, currentQuestion, questionQueue,
                  queueRef, genCount, queueBase, served, calls, userAnswer,
                  score, correctAnswers, totalQuestions, timeRemaining,
                  gameActive, isStarting, saving, sessionId, startRequests,
                  timeouts, nextSessionId, history, layoutVars, panelVars,
                  sessionVars, boardVars, authVars >>

FormFields(component) ==
    IF component = "Register"
    THEN {"username", "password", "confirmPassword", "nickname"}
    ELSE {"username", "password"}

FormInit ==
    /\ ScreenIdle
    /\ LayoutIdle
    /\ PanelIdle
    /\ SessionIdle
    /\ GamesIdle
    /\ AuthIdle
    /\ \E component \in {"Login", "Register"} :
          authForm = [component |-> component,
                      username |-> << >>,
                      password |-> << >>,
                      confirmPassword |-> << >>,
                      nickname |-> << >>,
                      error |-> NoError,
                      loading |-> FALSE,
                      waiting |-> FALSE,
                      call |-> [op |-> "mount", sent |-> << >>]]

\* onChange of an input: setUsername, setPassword, ...
FormChange ==
    \E field \in FormFields(authForm.component), value \in FormTexts :
        /\ authForm' = [authForm EXCEPT
                            ![field] = value,
                            !.call = [op |-> "onChange", sent |-> << >>]]
        /\ UNCHANGED notFormVars

\* The submit button is disabled while loading.
RegisterSubmit ==
    /\ authForm.component = "Register"
    /\ ~authForm.loading
    /\ authForm' =
          handleSubmit(authForm,
                       registerError(authForm.username, authForm.password,
                                     authForm.confirmPassword,
                                     authForm.nickname),
                       [op |-> "register",
                        username |-> authForm.username,
                        password |-> authForm.password,
                        nickname |-> authForm.nickname])
    /\ UNCHANGED notFormVars

LoginSubmit ==
    /\ authForm.component = "Login"
    /\ ~authForm.loading
    /\ authForm' =
          handleSubmit(authForm,
                       loginError(authForm.username, authForm.password),
                       [op |-> "login",
                        username |-> authForm.username,
                        password |-> authForm.password])
    /\ UNCHANGED notFormVars

\* The AuthService has answered: setLoading(false), then the success
\* callback or setError(response.message).
FormAnswered ==
    \E success \in BOOLEAN :
        /\ authForm.waiting
        /\ authForm' = [authForm EXCEPT
                            !.loading = FALSE,
                            !.waiting = FALSE,
                            !.error = IF success THEN @ ELSE "response.message",
                            !.call = [op |-> "answer", sent |-> << >>]]
        /\ UNCHANGED notFormVars

FormNext ==
    \/ FormChange
    \/ RegisterSubmit
    \/ LoginSubmit
    \/ FormAnswered

FormSpec == FormInit /\ [][FormNext]_vars

(***************************************************************************)
(* Claims about the forms.                                                 *)
(***************************************************************************)
InLimits(text) == Len(text) >= 5 /\ Len(text) <= 15

WordOnly(text) ==
    \A i \in 1..Len(text) : text[i] \in Letters \cup Digits \cup {"_"}

\* What the claim asks of the cells of the form before a request is sent.
CredentialsValid ==
    IF authForm.component = "Register"
    THEN /\ InLimits(authForm.username)
         /\ WordOnly(authForm.username)
         /\ InLimits(authForm.password)
         /\ authForm.password = authForm.confirmPassword
         /\ InLimits(authForm.nickname)
    ELSE /\ InLimits(authForm.username)
         /\ InLimits(authForm.password)

\* C25: Register sends a register request only when the username has 5..15
\* characters from letters, digits and underscore, the password has 5..15
\* characters and equals the confirmation and the nickname has 5..15
\* characters; Login sends a login request only when username and password
\* both have 5..15 characters; otherwise an error message is set, loading
\* is false again and no request is sent.
C25_ValidationGatesRequest ==
    authForm.call.op = "handleSubmit" =>
        IF CredentialsValid
        THEN /\ Len(authForm.call.sent) = 1
             /\ authForm.call.sent[1].username = authForm.username
             /\ authForm.call.sent[1].password = authForm.password
             /\ authForm.waiting
        ELSE /\ authForm.call.sent = << >>
             /\ authForm.error # NoError
             /\ ~authForm.loading
             /\ ~authForm.waiting

\* Register refused a form whose only fault is the confirmation.
C25_Witness ==
    /\ authForm.component = "Register"
    /\ authForm.call.op = "handleSubmit"
    /\ authForm.call.sent = << >>
    /\ InLimits(authForm.username)
    /\ WordOnly(authForm.username)
    /\ InLimits(authForm.password)
    /\ InLimits(authForm.nickname)
    /\ authForm.password # authForm.confirmPassword

=============================================================================
